---- MODULE Spec2Model ----
(***************************************************************************)
(* Verification model of lecture-scan-face: the kiosk recognition loop,    *)
(* the mark-attendance endpoint, the student self-service page and the     *)
(* two storage backends (remote Postgres tables, local IndexedDB stores).  *)
(*                                                                         *)
(* Units.  Time is in ticks of 5 minutes.  Embedding coordinates, distances,          *)
(* thresholds and confidences are in units of 0.05, so 0.45 is 9 and 1.0   *)
(* is 20.  Optional (nullable) values are sequences: <<>> is null and      *)
(* <<v>> is the value v.                                                   *)
(***************************************************************************)
EXTENDS Integers, Sequences, FiniteSets, TLC

VARIABLES
    now,                \* wall clock (Date.now() / new Date()), in ticks
    attendance,         \* remote table public.attendance: a set of rows
    attendanceEnabled,  \* remote column lectures.attendance_enabled, per lecture
    req,                \* per kiosk client: the mark-attendance request in flight
    gps,                \* the GPS self-service page (second StudentAttendance)
    localAttendance,    \* local (IndexedDB) object store 'attendance'
    geo,                \* self-service pages: the latest run of a geofence check
    face,               \* face library and the pages on it: the latest call
    mounted,            \* Kiosk: the component is mounted (videoRef.current is set)
    lectureId,          \* Kiosk: useParams().lectureId
    students,           \* Kiosk: React state students (ids, in query order)
    markedStudents,     \* Kiosk: React state markedStudents
    status,             \* Kiosk: React state status
    srcObject,          \* Kiosk: videoRef.current.srcObject
    streams,            \* camera streams acquired and not yet stopped
    lockoutMap,         \* Kiosk: lockoutMap.current (0: no entry)
    processingRef,      \* Kiosk: processingRef.current
    sessions,           \* Kiosk: one record per run of the [lectureId] effect
    lastMatch,          \* Kiosk: the matchFace run of the latest cycle (null: none)
    requestedAt,        \* Kiosk: per student, when its latest write request was
                        \* issued (0: never); history, the code does not read it
    modelsLoaded,       \* models.ts: modelsLoaded
    recognitionThreshold, \* localStorage 'recognitionThreshold'
    lockoutMinutes,     \* localStorage 'lockoutMinutes'
    camera,             \* face self-service page: its camera state and streams
    localMode,          \* localStorage 'localMode'
    gateway             \* storage gateway: the student and enrollment tables of
                        \* both backends, and where its calls went

remoteVars == <<attendanceEnabled, req, gps>>

kioskVars ==
    <<mounted, lectureId, students, markedStudents, status, srcObject, streams,
      lockoutMap, processingRef, sessions, lastMatch, requestedAt, modelsLoaded>>

configVars == <<recognitionThreshold, lockoutMinutes>>

gatewayVars == <<localMode, gateway>>

pageVars == <<geo, face, gatewayVars, camera>>

vars == <<now, attendance, remoteVars, localAttendance, pageVars, kioskVars, configVars>>

---------------------------------------------------------------------------
\* Bounds of the model.

\* The clock runs from tick 1 to tick MaxTime.
MaxTime == 3
\* generateId draws its random suffix from 1..MaxSuffix.
MaxSuffix == 2
\* Runs of the Kiosk's [lectureId] effect (the mount, then route changes).
MaxSessions == 2
\* getUserMedia calls of the face self-service page.
MaxStreams == 2
\* studentsAPI.update calls of one run.
MaxUpdates == 2
\* Runs of the effect in the specification of repeated route changes.
MaxEffectRuns == MaxSessions + 1

---------------------------------------------------------------------------
\* Nullable values and JavaScript truthiness.

Null == <<>>

Some(v) == <<v>>

\* `x && ...` for x : number | null : null and 0 are falsy.
Truthy(x) == x # Null /\ x[1] # 0

---------------------------------------------------------------------------
\* Stored data that no modelled operation changes.

Lectures == {"L1", "L2"}

Students == {"S1", "S2", "S3"}

\* public.lectures rows (starts_at, ends_at, latitude, longitude, radius).
\* Positions are metres along one meridian; radius is in metres.
LectureRow(l) ==
    IF l = "L1"
    THEN [course_id |-> "C1", starts_at |-> 1, ends_at |-> 2,
          latitude |-> Null, longitude |-> Null, radius |-> Some(100)]
    ELSE [course_id |-> "C2", starts_at |-> 2, ends_at |-> 3,
          latitude |-> Some(1000), longitude |-> Some(7), radius |-> Some(100)]

\* Kiosk devices that call the mark-attendance endpoint.
Kiosks == {"K1"}

\* The student signed in on the GPS self-service page.
GpsStudent == "S1"

Abs(x) == IF x < 0 THEN 0 - x ELSE x

\* Lectures whose window contains t (bounds inclusive).
ActiveAt(t) == {l \in Lectures : LectureRow(l).starts_at <= t /\ t <= LectureRow(l).ends_at}

---------------------------------------------------------------------------
\* Remote backend: public.attendance with unique(lecture_id, student_id).

SamePair(r, l, s) == r.lecture_id = l /\ r.student_id = s

\* The unique(lecture_id, student_id) constraint would be violated by a new
\* row for (l, s).
UniqueViolation_Dropped(table, l, s) == FALSE

UniqueViolation(table, l, s) == \E r \in table : SamePair(r, l, s)

\* id uuid primary key default uuid_generate_v4(): a key no other row of the
\* table has (the least unused ordinal among the rows of the same pair).
NewId(table, l, s) ==
    CHOOSE n \in 1..(Cardinality(table) + 1) :
        /\ \A r \in table : SamePair(r, l, s) => r.id # n
        /\ \A m \in 1..(n - 1) : \E r \in table : SamePair(r, l, s) /\ r.id = m

NewRow(table, p) ==
    [id |-> NewId(table, p.lecture_id, p.student_id),
     lecture_id |-> p.lecture_id, student_id |-> p.student_id,
     marked_at |-> p.marked_at, confidence |-> p.confidence, method |-> p.method]

\* supabase.from('attendance').insert(p): fails on the unique constraint and on
\* the foreign key students(id).
InsertError(table, p) ==
    \/ UniqueViolation(table, p.lecture_id, p.student_id)
    \/ p.student_id \notin Students
    \/ p.lecture_id \notin Lectures

Insert(table, p) ==
    IF InsertError(table, p) THEN table ELSE table \cup {NewRow(table, p)}

\* supabase.from('attendance').upsert(p, {onConflict: 'lecture_id,student_id'}):
\* INSERT ... ON CONFLICT (lecture_id, student_id) DO UPDATE SET every column
\* of the payload.
UpsertError(p) == p.student_id \notin Students \/ p.lecture_id \notin Lectures

Upsert(table, p) ==
    IF UpsertError(p) THEN table
    ELSE IF UniqueViolation(table, p.lecture_id, p.student_id)
    THEN {IF SamePair(r, p.lecture_id, p.student_id)
          THEN [r EXCEPT !.marked_at = p.marked_at, !.confidence = p.confidence,
                         !.method = p.method]
          ELSE r : r \in table}
    ELSE table \cup {NewRow(table, p)}

\* supabase.from('attendance').delete().eq(lecture_id).eq(student_id)
Delete(table, l, s) == {r \in table : ~SamePair(r, l, s)}

---------------------------------------------------------------------------
\* The mark-attendance edge function.

KIOSK_TOKEN == "secret"

ReqTokens == {"secret", "wrong"}

ReqLectureIds == Lectures \cup {"L9", ""}

ReqStudentIds == {"S1", "S9", ""}

ReqConfidences == {Some(15)}

\* ServeCheck with the token comparison left out.
ServeCheck_AnyToken(token, lecture_id, student_id, t) ==
    IF lecture_id = "" \/ student_id = "" THEN 400
    ELSE IF lecture_id \notin Lectures THEN 404
    ELSE IF t < LectureRow(lecture_id).starts_at \/ t > LectureRow(lecture_id).ends_at
    THEN 400
    ELSE 0

\* ServeCheck with the window closed at its end: now >= endsAt is rejected.
ServeCheck_EndExclusive(token, lecture_id, student_id, t) ==
    IF token # KIOSK_TOKEN THEN 401
    ELSE IF lecture_id = "" \/ student_id = "" THEN 400
    ELSE IF lecture_id \notin Lectures THEN 404
    ELSE IF t < LectureRow(lecture_id).starts_at \/ t >= LectureRow(lecture_id).ends_at
    THEN 400
    ELSE 0

\* The response decided before the upsert: 401, 400, 404, 400, or 0 when the
\* request goes on to the upsert.
ServeCheck(token, lecture_id, student_id, t) ==
    IF token # KIOSK_TOKEN THEN 401
    ELSE IF lecture_id = "" \/ student_id = "" THEN 400
    ELSE IF lecture_id \notin Lectures THEN 404
    ELSE IF t < LectureRow(lecture_id).starts_at \/ t > LectureRow(lecture_id).ends_at
    THEN 400
    ELSE 0

\* No request yet.  token and lecture_id are those of the latest request;
\* window is the <<starts_at, ends_at>> of a 'Lecture is not active' response.
IdleReq == [pc |-> "idle", status |-> 0, body |-> Null,
            token |-> "", lecture_id |-> "", window |-> Null]

\* serve, up to the upsert call: token, body, lecture lookup, time window, and
\* the payload with marked_at = new Date().
Serve(k) ==
    /\ req[k].pc = "idle"
    /\ \E token \in ReqTokens \cup {""}, l \in ReqLectureIds, s \in ReqStudentIds,
          c \in ReqConfidences :
          LET st == ServeCheck(token, l, s, now) IN
          req' = [req EXCEPT ![k] =
                    IF st = 0
                    THEN [pc |-> "upsert", status |-> 0,
                          body |-> Some([lecture_id |-> l, student_id |-> s,
                                         marked_at |-> Some(now), confidence |-> c,
                                         method |-> "face"]),
                          token |-> token, lecture_id |-> l, window |-> Null]
                    ELSE [pc |-> "idle", status |-> st, body |-> Null,
                          token |-> token, lecture_id |-> l,
                          window |-> IF st = 400 /\ l # "" /\ s # ""
                                     THEN Some(<<LectureRow(l).starts_at,
                                                 LectureRow(l).ends_at>>)
                                     ELSE Null]]
    /\ UNCHANGED <<now, attendance, attendanceEnabled, gps, localAttendance, pageVars, kioskVars, configVars>>

\* serve, from the upsert to the response: 500 on a persistence error, else 200.
ServeUpsert(k) ==
    /\ req[k].pc = "upsert"
    /\ LET p == req[k].body[1] IN
       /\ attendance' = Upsert(attendance, p)
       /\ req' = [req EXCEPT ![k] = [pc |-> "idle",
                                     status |-> IF UpsertError(p) THEN 500 ELSE 200,
                                     body |-> Null,
                                     token |-> req[k].token,
                                     lecture_id |-> req[k].lecture_id,
                                     window |-> Null]]
    /\ UNCHANGED <<now, attendanceEnabled, gps, localAttendance, pageVars, kioskVars, configVars>>

---------------------------------------------------------------------------
\* The GPS self-service page (StudentAttendance, GPS variant).

\* Positions navigator.geolocation may report; <<>> when it reports none.
UserLocations ==
    {Null, Some([latitude |-> 1100, longitude |-> 7]),
     Some([latitude |-> 1101, longitude |-> 7])}

\* calculateDistance (haversine, metres).  Every position of the model lies on
\* one meridian, where the great-circle distance is the difference of the
\* positions along it.
CalculateDistance(lat1, lon1, lat2, lon2) ==
    CASE lon1 = lon2 -> Abs(lat2 - lat1)

\* markAttendance, the GPS check: TRUE when the handler goes on to the write.
GpsGeofencePass(lecture, userLocation) ==
    IF Truthy(lecture.latitude) /\ Truthy(lecture.longitude)
    THEN /\ userLocation # Null
         /\ LET distance == CalculateDistance(userLocation[1].latitude,
                                               userLocation[1].longitude,
                                               lecture.latitude[1], lecture.longitude[1])
                allowedRadius == IF Truthy(lecture.radius) THEN lecture.radius[1] ELSE 100
            IN ~(distance > allowedRadius)
    ELSE TRUE

\* handleLogin: the lectures of the student's courses that are active now.
handleLogin ==
    /\ gps.pc = "login"
    /\ gps' = [gps EXCEPT !.pc = "idle", !.activeLectures = ActiveAt(now)]
    /\ UNCHANGED <<now, attendance, attendanceEnabled, req, localAttendance, pageVars, kioskVars, configVars>>

\* The Logout button.
GpsLogout ==
    /\ gps.pc = "idle"
    /\ gps' = [gps EXCEPT !.pc = "login", !.activeLectures = {}]
    /\ UNCHANGED <<now, attendance, attendanceEnabled, req, localAttendance, pageVars, kioskVars, configVars>>

\* markAttendance(lecture) up to the 'already marked' query.
Gps_markAttendance(l) ==
    /\ gps.pc = "idle"
    /\ l \in gps.activeLectures
    /\ GpsGeofencePass(LectureRow(l), gps.userLocation)
    /\ gps' = [gps EXCEPT !.pc = "select", !.lecture = l]
    /\ UNCHANGED <<now, attendance, attendanceEnabled, req, localAttendance, pageVars, kioskVars, configVars>>

\* markAttendance: the 'already marked' query answers; when no row exists the
\* insert is issued with marked_at = new Date().
Gps_existing ==
    /\ gps.pc = "select"
    /\ gps' = IF \E r \in attendance : SamePair(r, gps.lecture, GpsStudent)
              THEN [gps EXCEPT !.pc = "idle", !.lecture = ""]
              ELSE [gps EXCEPT !.pc = "insert", !.marked_at = now]
    /\ UNCHANGED <<now, attendance, attendanceEnabled, req, localAttendance, pageVars, kioskVars, configVars>>

\* markAttendance: the insert reaches the table; on success the lecture leaves
\* the page's list, on error (unique violation) nothing is written.
Gps_insert ==
    /\ gps.pc = "insert"
    /\ LET p == [lecture_id |-> gps.lecture, student_id |-> GpsStudent,
                 marked_at |-> Some(gps.marked_at),
                 confidence |-> IF gps.userLocation # Null THEN Some(20) ELSE Null,
                 method |-> "gps"]
       IN /\ attendance' = Insert(attendance, p)
          /\ gps' = IF InsertError(attendance, p)
                    THEN [gps EXCEPT !.pc = "idle", !.lecture = "", !.marked_at = 0]
                    ELSE [gps EXCEPT !.pc = "idle", !.lecture = "", !.marked_at = 0,
                                     !.activeLectures = @ \ {gps.lecture}]
    /\ UNCHANGED <<now, attendanceEnabled, req, localAttendance, pageVars, kioskVars, configVars>>

---------------------------------------------------------------------------
\* The geofence of the two self-service pages.

\* What the operator types into the lecture form: <<>> is an empty field.
FormLatitudes == {Null, Some(0), Some(1000)}

FormLongitudes == {Null, Some(0), Some(7)}

FormRadii == {Null, Some(50)}

\* handleCreateLecture: the location columns of the row it inserts (radius has
\* the column default 100 when the form gives no location).
LectureLocation(latitude, longitude, radius) ==
    IF latitude # Null /\ longitude # Null
    THEN [latitude |-> latitude, longitude |-> longitude,
          radius |-> Some(IF Truthy(radius) THEN radius[1] ELSE 100)]
    ELSE [latitude |-> Null, longitude |-> Null, radius |-> Some(100)]

\* Distances (metres, along the lecture's meridian) of the positions the
\* browser may report.
UserOffsets == {0, 50, 51, 100, 101}

\* The position at offset off of the lecture's location (of latitude 1000,
\* longitude 7 when the lecture has none).
UserNear(lecture, off) ==
    Some([latitude |-> (IF lecture.latitude # Null THEN lecture.latitude[1] ELSE 1000) + off,
          longitude |-> IF lecture.longitude # Null THEN lecture.longitude[1] ELSE 7])

\* startCamera, the location check: TRUE when the handler goes on to
\* setSelectedLecture and getUserMedia.
FaceGeofencePass(lecture, userLocation) ==
    IF Truthy(lecture.latitude) /\ Truthy(lecture.longitude) /\ Truthy(lecture.radius)
    THEN /\ userLocation # Null
         /\ LET distance == CalculateDistance(userLocation[1].latitude,
                                               userLocation[1].longitude,
                                               lecture.latitude[1], lecture.longitude[1])
            IN ~(distance > lecture.radius[1])
    ELSE TRUE

IdleGeo == [pc |-> "idle"]

\* The face self-service page is mounted, no lecture is selected, the camera
\* card (and with it the video element) is not rendered, no stream is held.
\* requested counts the getUserMedia calls made, pending those not yet
\* answered, running holds the streams whose tracks have not been stopped.
IdleCamera ==
    [mounted |-> TRUE, selectedLecture |-> FALSE, cameraActive |-> FALSE,
     streamRef |-> Null, requested |-> 0, pending |-> 0, running |-> {}]

\* videoRef.current: the video element is rendered inside
\* `{cameraActive && selectedLecture && (...)}`.
videoRef == camera.mounted /\ camera.cameraActive /\ camera.selectedLecture

\* startCamera(lecture) of the face self-service page, for a lecture created
\* with the form values given, with the page's modelsLoaded and userLocation,
\* up to its await: past its guards it selects the lecture and calls
\* getUserMedia.
startCamera(latitude, longitude, radius, loaded, located, off) ==
    /\ camera.mounted
    /\ (latitude = Null) = (longitude = Null)
    /\ LET lecture == LectureLocation(latitude, longitude, radius)
           userLocation == IF located THEN UserNear(lecture, off) ELSE Null
           proceeds == loaded /\ FaceGeofencePass(lecture, userLocation)
       IN /\ proceeds => camera.requested < MaxStreams
          /\ geo' = [pc |-> "done", page |-> "face", lecture |-> lecture,
                     userLocation |-> userLocation, modelsLoaded |-> loaded,
                     proceeds |-> proceeds]
          /\ camera' = IF proceeds
                       THEN [camera EXCEPT !.selectedLecture = TRUE, !.requested = @ + 1,
                                           !.pending = @ + 1]
                       ELSE camera
    /\ UNCHANGED <<now, attendance, remoteVars, localAttendance, face, gatewayVars, kioskVars, configVars>>

\* getUserMedia of startCamera answers with a stream (ok) or is refused.  The
\* stream is attached and kept in streamRef only when videoRef.current is set.
startCamera_getUserMediaReturns(ok) ==
    /\ camera.pending > 0
    /\ LET stream == camera.requested - camera.pending + 1
       IN camera' =
            IF ~ok THEN [camera EXCEPT !.pending = @ - 1]
            ELSE IF videoRef
            THEN [camera EXCEPT !.pending = @ - 1, !.running = @ \cup {stream},
                                !.streamRef = Some(stream), !.cameraActive = TRUE]
            ELSE [camera EXCEPT !.pending = @ - 1, !.running = @ \cup {stream}]
    /\ UNCHANGED <<now, attendance, remoteVars, localAttendance, geo, face, gatewayVars,
                   kioskVars, configVars>>

\* stopCamera, from the Cancel button of the camera card or from
\* captureAndMarkAttendance, both past a rendered video element.
stopCamera ==
    /\ videoRef
    /\ camera' = [camera EXCEPT !.running = IF camera.streamRef = Null THEN @
                                             ELSE @ \ {camera.streamRef[1]},
                                !.streamRef = Null, !.cameraActive = FALSE,
                                !.selectedLecture = FALSE]
    /\ UNCHANGED <<now, attendance, remoteVars, localAttendance, geo, face, gatewayVars,
                   kioskVars, configVars>>

\* The page unmounts: the cleanup of its effect clears the interval of
\* fetchActiveLectures and nothing else.
StudentAttendance_unmount ==
    /\ camera.mounted
    /\ camera' = [camera EXCEPT !.mounted = FALSE]
    /\ UNCHANGED <<now, attendance, remoteVars, localAttendance, geo, face, gatewayVars,
                   kioskVars, configVars>>

\* markAttendance(lecture) of the GPS self-service page up to setMarking, for
\* a lecture created with the form values given.
Gps_geofence(latitude, longitude, radius, located, off) ==
    /\ (latitude = Null) = (longitude = Null)
    /\ LET lecture == LectureLocation(latitude, longitude, radius)
           userLocation == IF located THEN UserNear(lecture, off) ELSE Null
       IN geo' = [pc |-> "done", page |-> "gps", lecture |-> lecture,
                  userLocation |-> userLocation, modelsLoaded |-> TRUE,
                  proceeds |-> GpsGeofencePass(lecture, userLocation)]
    /\ UNCHANGED <<now, attendance, remoteVars, localAttendance, face, gatewayVars, camera, kioskVars, configVars>>

---------------------------------------------------------------------------
\* Face detection (embedding.ts) and the enrollment form (Students.tsx).

\* `box.width < 150 || box.height < 150`
MinFaceSize == 150

\* detectionOptions.scoreThreshold, in tenths.
ScoreThreshold == 5

\* Faces in one frame or image.
MaxFaces == 2

\* What the detector may see of a face: its score (tenths) and its box.  The
\* descriptor of a face stands for the face itself.
Faces ==
    {[score |-> 9, width |-> 150, height |-> 150],
     [score |-> 8, width |-> 200, height |-> 200],
     [score |-> 9, width |-> 149, height |-> 150],
     [score |-> 8, width |-> 150, height |-> 149],
     [score |-> 4, width |-> 150, height |-> 150]}

\* A frame of the video, or an image: the faces in it, or a detector that
\* throws on it.
Frames ==
    {[faces |-> f, throws |-> FALSE] : f \in UNION {[1..n -> Faces] : n \in 0..MaxFaces}}
        \cup {[faces |-> <<>>, throws |-> TRUE]}

Detectable(f) == f.score > ScoreThreshold

\* faceapi.detectAllFaces(img, detectionOptions)
detectAllFaces(frame) == SelectSeq(frame.faces, Detectable)

\* faceapi.detectSingleFace(videoEl, detectionOptions): the face of the highest
\* score, <<>> when there is none; one of them when several share it.
detectSingleFace(frame) ==
    LET ds == detectAllFaces(frame)
    IN IF ds = <<>> THEN {Null}
       ELSE {Some(ds[i]) : i \in {j \in DOMAIN ds :
                                     \A k \in DOMAIN ds : ds[k].score <= ds[j].score}}

\* A size test that rejects a box only when both sides are short.
TooSmall_BothSides(box) == box.width < MinFaceSize /\ box.height < MinFaceSize

TooSmall(box) == box.width < MinFaceSize \/ box.height < MinFaceSize

\* getEmbeddingFromVideo(videoEl) on a frame where detectSingleFace gives
\* detection: [threw, value], value <<>> for null.
getEmbeddingFromVideo(frame, detection) ==
    LET try == IF frame.throws THEN [threw |-> TRUE, value |-> Null]
               ELSE IF detection = Null THEN [threw |-> FALSE, value |-> Null]
               ELSE IF TooSmall(detection[1]) THEN [threw |-> FALSE, value |-> Null]
               ELSE [threw |-> FALSE, value |-> detection]
    IN IF try.threw THEN [threw |-> FALSE, value |-> Null] ELSE try

\* getEmbeddingFromImage(input): [threw, error, value]; the catch block throws
\* the error again.
getEmbeddingFromImage(frame) ==
    LET detections == detectAllFaces(frame)
    IN IF frame.throws
       THEN [threw |-> TRUE, error |-> "detector", value |-> Null]
       ELSE IF Len(detections) = 0
       THEN [threw |-> TRUE, error |-> "No face detected in the image", value |-> Null]
       ELSE IF Len(detections) > 1
       THEN [threw |-> TRUE, value |-> Null,
             error |-> "Multiple faces detected. Please use an image with exactly one face."]
       ELSE IF TooSmall(detections[1])
       THEN [threw |-> TRUE, value |-> Null,
             error |-> "Face detected is too small. Please use a closer image."]
       ELSE [threw |-> FALSE, error |-> "", value |-> Some(detections[1])]

\* No call yet; descriptor is the enrollment form's descriptor state.
IdleFace ==
    [op |-> "", frame |-> [faces |-> <<>>, throws |-> FALSE], threw |-> FALSE,
     value |-> Null, error |-> "", accepted |-> FALSE, descriptor |-> Null]

\* A caller awaits getEmbeddingFromVideo on a frame.
Call_getEmbeddingFromVideo(frame) ==
    /\ \E detection \in detectSingleFace(frame) :
          LET r == getEmbeddingFromVideo(frame, detection)
          IN face' = [op |-> "getEmbeddingFromVideo", frame |-> frame,
                      threw |-> r.threw, value |-> r.value, error |-> "",
                      accepted |-> FALSE, descriptor |-> face.descriptor]
    /\ UNCHANGED <<now, attendance, remoteVars, localAttendance, geo, gatewayVars, camera, kioskVars, configVars>>

\* A caller awaits getEmbeddingFromImage on an image.
Call_getEmbeddingFromImage(frame) ==
    /\ LET r == getEmbeddingFromImage(frame)
       IN face' = [op |-> "getEmbeddingFromImage", frame |-> frame,
                   threw |-> r.threw, value |-> r.value, error |-> r.error,
                   accepted |-> FALSE, descriptor |-> face.descriptor]
    /\ UNCHANGED <<now, attendance, remoteVars, localAttendance, geo, gatewayVars, camera, kioskVars, configVars>>

\* Students.captureFromCamera on a frame of the running camera (the canvas
\* copy of the frame succeeds).
captureFromCamera(frame) ==
    /\ \E detection \in detectSingleFace(frame) :
          LET result == getEmbeddingFromVideo(frame, detection).value
          IN face' =
               IF result = Null
               THEN [op |-> "captureFromCamera", frame |-> frame, threw |-> FALSE,
                     value |-> Null, accepted |-> FALSE, descriptor |-> face.descriptor,
                     error |-> "No face detected or face too small. Move closer to the camera."]
               ELSE [op |-> "captureFromCamera", frame |-> frame, threw |-> FALSE,
                     value |-> result, accepted |-> TRUE, descriptor |-> result,
                     error |-> ""]
    /\ UNCHANGED <<now, attendance, remoteVars, localAttendance, geo, gatewayVars, camera, kioskVars, configVars>>

\* Students.handleFileUpload on an image file.
handleFileUpload(frame) ==
    /\ LET result == getEmbeddingFromImage(frame)
       IN face' =
            IF result.threw
            THEN [op |-> "handleFileUpload", frame |-> frame, threw |-> FALSE,
                  value |-> Null, accepted |-> FALSE, descriptor |-> Null,
                  error |-> result.error]
            ELSE [op |-> "handleFileUpload", frame |-> frame, threw |-> FALSE,
                  value |-> result.value, accepted |-> TRUE,
                  descriptor |-> result.value, error |-> ""]
    /\ UNCHANGED <<now, attendance, remoteVars, localAttendance, geo, gatewayVars, camera, kioskVars, configVars>>

---------------------------------------------------------------------------
\* The operator's course page.

\* toggleLectureAttendance(lectureId, currentStatus): currentStatus is the
\* value the page last fetched.
toggleLectureAttendance(l, currentStatus) ==
    /\ attendanceEnabled' = [attendanceEnabled EXCEPT ![l] = ~currentStatus]
    /\ UNCHANGED <<now, attendance, req, gps, localAttendance, pageVars, kioskVars, configVars>>

\* toggleAttendance(studentId, isPresent) for the selected lecture: isPresent
\* is the value the dialog last fetched.
toggleAttendance(l, s, isPresent) ==
    /\ attendance' =
         IF isPresent
         THEN Delete(attendance, l, s)
         ELSE Insert(attendance, [lecture_id |-> l, student_id |-> s,
                                  marked_at |-> Some(now), confidence |-> Null,
                                  method |-> "manual"])
    /\ UNCHANGED <<now, attendanceEnabled, req, gps, localAttendance, pageVars, kioskVars, configVars>>

---------------------------------------------------------------------------
\* Face matching (embedding.ts euclideanDistance, Kiosk.matchFace).

\* students.embedding (float8[]); S3 was enrolled with a vector of another length.
StudentRow(id) ==
    [id |-> id,
     embedding |-> IF id = "S1" THEN <<0, 0>> ELSE IF id = "S2" THEN <<6, 8>> ELSE <<5>>]

\* The students of the lecture's course that have an embedding, in the order
\* the students query returns them; <<>> for an unknown lecture.
Cohort(l) ==
    IF l = "L1" THEN <<"S1", "S2">>
    ELSE IF l = "L2" THEN <<"S2", "S1", "S3">>
    ELSE <<>>

\* Descriptors the detector may return for a frame.
Descriptors == {<<3, 4>>, <<0, 8>>, <<-6, -8>>}

RECURSIVE SumSq(_, _, _)
\* sum over k <= i of (a[k] - b[k])^2
SumSq(a, b, i) ==
    IF i = 0 THEN 0 ELSE SumSq(a, b, i - 1) + (a[i] - b[i]) * (a[i] - b[i])

\* Math.sqrt on the sums the model's vectors produce (all perfect squares).
Sqrt(n) == CHOOSE r \in 0..n : r * r = n

\* euclideanDistance throws 'Arrays must have the same length'.
DimensionMismatch(a, b) == Len(a) # Len(b)

euclideanDistance(a, b) == Sqrt(SumSq(a, b, Len(a)))

\* parseFloat(localStorage.getItem('recognitionThreshold') || '0.45')
DefaultThreshold == 9

Threshold(stored) == IF stored = Null THEN DefaultThreshold ELSE stored[1]

\* parseInt(localStorage.getItem('lockoutMinutes') || '10')
DefaultLockoutMinutes == 10

LockoutMinutesOf(stored) == IF stored = Null THEN DefaultLockoutMinutes ELSE stored[1]

\* The test of the scan loop: the candidate at distance d replaces the best so
\* far (at distance bestD; hasBest is FALSE when there is none).
Better_NoThreshold(d, threshold, hasBest, bestD) == ~hasBest \/ d < bestD

Better_LastWins(d, threshold, hasBest, bestD) ==
    d <= threshold /\ (~hasBest \/ d <= bestD)

Better(d, threshold, hasBest, bestD) == d <= threshold /\ (~hasBest \/ d < bestD)

RECURSIVE Scan(_, _, _, _, _)
\* `for (const student of students)` from index i on, with best the index of
\* bestMatch so far (0: null).  The result is [threw, best].
Scan(cohort, descriptor, threshold, i, best) ==
    IF i > Len(cohort) THEN [threw |-> FALSE, best |-> best]
    ELSE LET e == StudentRow(cohort[i]).embedding IN
         IF DimensionMismatch(descriptor, e) THEN [threw |-> TRUE, best |-> 0]
         ELSE LET d == euclideanDistance(descriptor, e)
                  bestD == IF best = 0 THEN 0
                           ELSE euclideanDistance(descriptor,
                                                  StudentRow(cohort[best]).embedding)
              IN IF Better(d, threshold, best # 0, bestD)
                 THEN Scan(cohort, descriptor, threshold, i + 1, i)
                 ELSE Scan(cohort, descriptor, threshold, i + 1, best)

\* `if (confidence < 0.6)`
MinConfidence == 12

\* The distance captureAndMarkAttendance computes in line: the loop runs over
\* storedEmbedding and checks no length; beyond the end of capturedEmbedding
\* the terms are NaN, and so is the result (<<>>).
InlineDistance(storedEmbedding, capturedEmbedding) ==
    IF Len(storedEmbedding) > Len(capturedEmbedding) THEN Null
    ELSE Some(Sqrt(SumSq(storedEmbedding, capturedEmbedding, Len(storedEmbedding))))

\* Math.max(0, 1 - distance); NaN for NaN.
InlineConfidence(distance) ==
    IF distance = Null THEN Null
    ELSE Some(IF 20 - distance[1] > 0 THEN 20 - distance[1] ELSE 0)

\* `confidence < 0.6` is false for NaN.
FaceDoesNotMatch(confidence) == confidence # Null /\ confidence[1] < MinConfidence

\* StudentAttendance.captureAndMarkAttendance for the signed-in student s and
\* the selected lecture l, called with the video element in place; result is
\* what getEmbeddingFromVideo returns, uploaded whether the selfie upload
\* succeeds.
captureAndMarkAttendance(l, s, result, uploaded) ==
    LET storedEmbedding == StudentRow(s).embedding
        confidence == InlineConfidence(InlineDistance(storedEmbedding, result[1]))
        p == [lecture_id |-> l, student_id |-> s, marked_at |-> Some(now),
              confidence |-> confidence, method |-> "face"]
        outcome ==
            IF result = Null THEN "No face detected"
            ELSE IF FaceDoesNotMatch(confidence) THEN "Face does not match"
            ELSE IF \E r \in attendance : SamePair(r, l, s) THEN "already marked"
            ELSE IF ~uploaded THEN "Failed to upload selfie"
            ELSE IF InsertError(attendance, p) THEN "Failed to mark attendance"
            ELSE "marked"
    IN /\ attendance' = IF outcome = "marked" THEN Insert(attendance, p) ELSE attendance
       /\ face' = [op |-> "captureAndMarkAttendance", lecture |-> l, student |-> s,
                   captured |-> result, confidence |-> IF result = Null THEN Null ELSE confidence,
                   outcome |-> outcome, descriptor |-> face.descriptor]
       /\ UNCHANGED <<now, remoteVars, localAttendance, geo, gatewayVars, camera, kioskVars, configVars>>

\* The ticks of the clock in milliseconds (Date.now()).
TickMs == 5 * 60000

\* `lastMarked && Date.now() - lastMarked < lockoutMinutes * 60000`
LockedOut_Seconds(lastMarked, t, minutes) ==
    lastMarked # 0 /\ (t - lastMarked) * TickMs < minutes * 1000

LockedOut(lastMarked, t, minutes) ==
    lastMarked # 0 /\ (t - lastMarked) * TickMs < minutes * 60000

---------------------------------------------------------------------------
\* The Kiosk component (Index.tsx).  Each run of the [lectureId] effect calls
\* initialize(), whose callbacks (fetchEnrolledStudents, the loop, matchFace,
\* markAttendance) close over the lectureId, students and markedStudents of the
\* render that ran the effect: a session record holds them.  Its field locked
\* is history the code does not keep: the students whose lockout entry this
\* run's matchFace has set.

KioskLectureIds == Lectures \cup {"L9"}

NewSession(l, studs, marked, loaded) ==
    [lectureId |-> l, students |-> studs, markedStudents |-> marked,
     pc |-> IF loaded THEN "getUserMedia" ELSE "loadModels",
     student |-> "", confidence |-> 0, locked |-> {}]

\* A state setter of an unmounted component changes nothing.
SetState(old, new) == IF mounted THEN new ELSE old

\* catch (error) { setStatus(`Error: ...`) } of initialize.
CatchStatus_Swallowed == status

CatchStatus == SetState(status, "Error")

\* `processingRef.current || !videoRef.current` at the head of loop().
Busy_NoFlag == ~mounted

Busy == processingRef \/ ~mounted

\* The models load that loadFaceModels() of session i started settles: loaded
\* (ok) or failed (~ok).  (With modelsLoaded set at the call loadFaceModels
\* returns at once and initialize goes on to getUserMedia in the same task.)
loadFaceModelsReturns(i, ok) ==
    /\ i \in DOMAIN sessions
    /\ sessions[i].pc = "loadModels"
    /\ IF ok
       THEN /\ modelsLoaded' = TRUE
            /\ status' = SetState(status, "Starting camera...")
            /\ sessions' = [sessions EXCEPT ![i].pc = "getUserMedia"]
       ELSE /\ UNCHANGED modelsLoaded
            /\ status' = CatchStatus
            /\ sessions' = [sessions EXCEPT ![i].pc = "failed"]
    /\ UNCHANGED <<now, attendance, remoteVars, localAttendance, pageVars, configVars, mounted,
                   lectureId, students, markedStudents, srcObject, streams,
                   lockoutMap, processingRef, lastMatch, requestedAt>>

\* getUserMedia of session i answers with a stream (ok) or is refused.
getUserMediaReturns(i, ok) ==
    /\ i \in DOMAIN sessions
    /\ sessions[i].pc = "getUserMedia"
    /\ IF ok
       THEN /\ streams' = streams \cup {i}
            /\ srcObject' = IF mounted THEN Some(i) ELSE srcObject
            /\ status' = SetState(status, "Loading enrolled students...")
            /\ sessions' = [sessions EXCEPT ![i].pc = "fetchStudents"]
       ELSE /\ UNCHANGED <<streams, srcObject>>
            /\ status' = CatchStatus
            /\ sessions' = [sessions EXCEPT ![i].pc = "failed"]
    /\ UNCHANGED <<now, attendance, remoteVars, localAttendance, pageVars, configVars, mounted,
                   lectureId, students, markedStudents, lockoutMap, processingRef,
                   modelsLoaded, lastMatch, requestedAt>>

FetchOutcomes == {"ok", "empty", "error"}

\* fetchEnrolledStudents of session i answers: 'Lecture not found' is thrown
\* for an unknown lecture or a failed lecture query ("error"); a failed
\* enrollments or students query gives an empty list ("empty").  On success
\* initialize goes on to startRecognitionLoop, whose first loop() runs at once.
fetchEnrolledStudentsReturns(i, outcome) ==
    /\ i \in DOMAIN sessions
    /\ sessions[i].pc = "fetchStudents"
    /\ sessions[i].lectureId \notin Lectures => outcome = "error"
    /\ IF outcome = "error"
       THEN /\ status' = CatchStatus
            /\ sessions' = [sessions EXCEPT ![i].pc = "failed"]
            /\ UNCHANGED <<students, processingRef>>
       ELSE /\ students' = SetState(students,
                                    IF outcome = "ok" THEN Cohort(sessions[i].lectureId)
                                    ELSE <<>>)
            /\ status' = SetState(status, "Ready - Scanning for faces...")
            /\ sessions' = [sessions EXCEPT ![i].pc = IF Busy THEN "timer196" ELSE "infer"]
            /\ processingRef' = (processingRef \/ ~Busy)
    /\ UNCHANGED <<now, attendance, remoteVars, localAttendance, pageVars, configVars, mounted,
                   lectureId, markedStudents, srcObject, streams, lockoutMap,
                   modelsLoaded, lastMatch, requestedAt>>

\* A setTimeout(loop, 300) of session i fires: loop() up to its first await.
\* pc "timer196" is the timer set when the tick was dropped (line 196),
\* "timer216" the one set at the end of a cycle (line 216).
loop(i) ==
    /\ i \in DOMAIN sessions
    /\ sessions[i].pc \in {"timer196", "timer216"}
    /\ IF Busy
       THEN /\ sessions' = [sessions EXCEPT ![i].pc = "timer196"]
            /\ UNCHANGED <<processingRef, lastMatch>>
       ELSE /\ processingRef' = TRUE
            /\ sessions' = [sessions EXCEPT ![i].pc = "infer"]
            /\ lastMatch' = Null
    /\ UNCHANGED <<now, attendance, remoteVars, localAttendance, pageVars, configVars, mounted,
                   lectureId, students, markedStudents, status, srcObject, streams,
                   lockoutMap, modelsLoaded, requestedAt>>

\* What getEmbeddingFromVideo resolves to: null (no face, face too small, the
\* detector threw) or a result with a descriptor.
InferOutcomes == {Null} \cup {Some(d) : d \in Descriptors}

\* matchFace without the loop's catch around it: an exception of the scan
\* ends the loop (no reset of the flag, no timer).
matchFace_Uncaught(i, descriptor) ==
    LET s == sessions[i]
        threshold == Threshold(recognitionThreshold)
        r == Scan(s.students, descriptor, threshold, 1, 0)
        m == [session |-> i, descriptor |-> descriptor, threshold |-> threshold,
              threw |-> r.threw, best |-> r.best]
    IN IF r.threw THEN [match |-> m, session |-> [s EXCEPT !.pc = "failed"]]
       ELSE IF r.best = 0 THEN [match |-> m, session |-> [s EXCEPT !.pc = "timer216"]]
       ELSE [match |-> m,
             session |-> [s EXCEPT !.pc = "fetch", !.student = s.students[r.best],
                                   !.confidence = 20 - euclideanDistance(descriptor,
                                        StudentRow(s.students[r.best]).embedding)]]

\* matchFace(descriptor) of session i up to its first await or its return:
\* what it read and selected (match) and the session record after (session),
\* with pc "fetch" when markAttendance was called, else "timer216".
matchFace(i, descriptor) ==
    LET s == sessions[i]
        threshold == Threshold(recognitionThreshold)
        minutes == LockoutMinutesOf(lockoutMinutes)
        r == Scan(s.students, descriptor, threshold, 1, 0)
        m == [session |-> i, descriptor |-> descriptor, threshold |-> threshold,
              threw |-> r.threw, best |-> r.best]
    IN IF r.threw \/ r.best = 0
       THEN [match |-> m, session |-> [s EXCEPT !.pc = "timer216"]]
       ELSE LET student == s.students[r.best]
                distance == euclideanDistance(descriptor, StudentRow(student).embedding)
            IN IF \/ LockedOut(lockoutMap[student], now, minutes)
                  \/ student \in s.markedStudents
               THEN [match |-> m, session |-> [s EXCEPT !.pc = "timer216"]]
               ELSE [match |-> m,
                     session |-> [s EXCEPT !.pc = "fetch", !.student = student,
                                           !.confidence = 20 - distance]]

\* getEmbeddingFromVideo of session i resolves: the rest of the cycle up to the
\* fetch of markAttendance, or to the end of the cycle.
getEmbeddingFromVideoReturns(i, result) ==
    /\ i \in DOMAIN sessions
    /\ sessions[i].pc = "infer"
    /\ IF result = Null
       THEN /\ sessions' = [sessions EXCEPT ![i].pc = "timer216"]
            /\ processingRef' = FALSE
            /\ UNCHANGED <<lastMatch, requestedAt>>
       ELSE LET after == matchFace(i, result[1])
            IN /\ sessions' = [sessions EXCEPT ![i] = after.session]
               /\ processingRef' = (after.session.pc = "fetch")
               /\ lastMatch' = Some(after.match)
               /\ requestedAt' = IF after.session.pc = "fetch"
                                 THEN [requestedAt EXCEPT ![after.session.student] = now]
                                 ELSE requestedAt
    /\ UNCHANGED <<now, attendance, remoteVars, localAttendance, pageVars, configVars, mounted,
                   lectureId, students, markedStudents, status, srcObject, streams,
                   lockoutMap, modelsLoaded>>

\* The fetch of markAttendance of session i settles.  When it resolves (any
\* HTTP status) the endpoint has handled the request, and matchFace goes on:
\* lockout map, marked set, end of the cycle.  When it rejects (network) the
\* loop's catch ends the cycle.
markAttendanceReturns(i, token, resolved) ==
    /\ i \in DOMAIN sessions
    /\ sessions[i].pc = "fetch"
    /\ LET s == sessions[i]
           p == [lecture_id |-> s.lectureId, student_id |-> s.student,
                 marked_at |-> Some(now), confidence |-> Some(s.confidence),
                 method |-> "face"]
       IN IF resolved
          THEN /\ attendance' =
                    IF ServeCheck(token, s.lectureId, s.student, now) = 0
                    THEN Upsert(attendance, p) ELSE attendance
               /\ lockoutMap' = [lockoutMap EXCEPT ![s.student] = now]
               /\ markedStudents' = SetState(markedStudents,
                                             markedStudents \cup {s.student})
          ELSE UNCHANGED <<attendance, lockoutMap, markedStudents>>
    /\ sessions' = [sessions EXCEPT ![i].pc = "timer216", ![i].student = "",
                                    ![i].confidence = 0,
                                    ![i].locked = IF resolved THEN @ \cup {sessions[i].student}
                                                  ELSE @]
    /\ processingRef' = FALSE
    /\ UNCHANGED <<now, remoteVars, localAttendance, pageVars, configVars, mounted, lectureId,
                   students, status, srcObject, streams, modelsLoaded, lastMatch, requestedAt>>

\* The tracks of the stream attached to the video element are stopped.
StopTracks == IF srcObject = Null THEN streams ELSE streams \ {srcObject[1]}

\* The route parameter changes to l: the effect's cleanup runs, then the
\* effect again, with the state of this render.
ChangeLecture(l) ==
    /\ mounted
    /\ l # lectureId
    /\ Len(sessions) < MaxEffectRuns
    /\ streams' = StopTracks
    /\ lectureId' = l
    /\ sessions' = Append(sessions, NewSession(l, students, markedStudents, modelsLoaded))
    /\ status' = IF modelsLoaded THEN "Starting camera..." ELSE "Loading face models..."
    /\ UNCHANGED <<now, attendance, remoteVars, localAttendance, pageVars, configVars, mounted,
                   students, markedStudents, srcObject, lockoutMap, processingRef,
                   modelsLoaded, lastMatch, requestedAt>>

\* The component unmounts.  React detaches videoRef before it runs the
\* cleanup of a passive effect (React 17 and later) or after (before 17); the
\* cleanup stops the tracks only when videoRef.current is still set.
Unmount(detached) ==
    /\ mounted
    /\ mounted' = FALSE
    /\ streams' = IF detached THEN streams ELSE StopTracks
    /\ srcObject' = Null
    /\ UNCHANGED <<now, attendance, remoteVars, localAttendance, pageVars, configVars, lectureId,
                   students, markedStudents, status, lockoutMap, processingRef,
                   sessions, modelsLoaded, lastMatch, requestedAt>>

---------------------------------------------------------------------------
\* The Settings page.

SliderThresholds == {7}

SliderLockouts == {5}

handleThresholdChange(v) ==
    /\ recognitionThreshold' = Some(v)
    /\ UNCHANGED <<now, attendance, remoteVars, localAttendance, pageVars, kioskVars, lockoutMinutes>>

handleLockoutChange(v) ==
    /\ lockoutMinutes' = Some(v)
    /\ UNCHANGED <<now, attendance, remoteVars, localAttendance, pageVars, kioskVars,
                   recognitionThreshold>>

---------------------------------------------------------------------------
\* Time passes.
Tick ==
    /\ now < MaxTime
    /\ now' = now + 1
    /\ UNCHANGED <<attendance, remoteVars, localAttendance, pageVars, kioskVars, configVars>>

---------------------------------------------------------------------------
\* Local backend: the IndexedDB object store 'attendance' (keyPath 'id', indexes
\* by-student, by-lecture, by-date, none of them unique), in local mode.

\* generateId: `${Date.now()}-${random suffix}`.
generateId(t, rnd) == <<t, rnd>>

\* IDBObjectStore.add: a ConstraintError when the key is already in the store
\* or a unique index would be violated; the store has no unique index.
AddError(store, v) == \E r \in store : r.id = v.id

\* The order of IDBIndex.getAll within one index key: by primary key.
IdBefore(a, b) == a[1] < b[1] \/ (a[1] = b[1] /\ a[2] < b[2])

\* attendanceAPI.create, local branch.
attendanceAPI_create(l, s, c, m, rnd) ==
    /\ LET newAttendance ==
             [id |-> generateId(now, rnd), lecture_id |-> l, student_id |-> s,
              marked_at |-> Some(now), confidence |-> c, method |-> m,
              created_at |-> now]
       IN localAttendance' = IF AddError(localAttendance, newAttendance)
                             THEN localAttendance
                             ELSE localAttendance \cup {newAttendance}
    /\ UNCHANGED <<now, attendance, remoteVars, pageVars, kioskVars, configVars>>

\* attendanceAPI.delete, local branch: the first record of the lecture with
\* this student is deleted.
attendanceAPI_delete(l, s) ==
    /\ LET records == {r \in localAttendance : SamePair(r, l, s)}
       IN localAttendance' =
            IF records = {} THEN localAttendance
            ELSE localAttendance \ {CHOOSE r \in records :
                                       \A q \in records : q = r \/ IdBefore(r.id, q.id)}
    /\ UNCHANGED <<now, attendance, remoteVars, pageVars, kioskVars, configVars>>

---------------------------------------------------------------------------
\* The storage gateway (lib/storage/data.ts) over the students and enrollments
\* of both backends.  A student is named by its roll_no, unique in both stores
\* and one to one with its id.

GatewayStudents == {"S1", "S2"}

GatewayCourses == {"C1"}

\* The columns of a student that studentsAPI.update is called with here, and
\* a row as created (value 0) or after an update of a column (value 1).
StudentFields == {"name", "embedding"}

NewStudentRow == [f \in StudentFields |-> 0]

\* rows and localRows hold the columns of the students of each store (NewStudentRow
\* for an id not stored); updates holds the studentsAPI.update calls made, in
\* call order, each with its stage.
IdleGateway ==
    [students |-> {}, enrollments |-> {},
     localStudents |-> {}, localEnrollments |-> {},
     rows |-> [s \in GatewayStudents |-> NewStudentRow],
     localRows |-> [s \in GatewayStudents |-> NewStudentRow],
     updates |-> <<>>,
     backends |-> {}, call |-> [op |-> "", id |-> "", backend |-> "", ok |-> FALSE]]

\* isLocalMode(): localStorage.getItem('localMode') === 'true'.
isLocalMode == localMode = Some("true")

Backend == IF isLocalMode THEN "local" ELSE "remote"

\* A gateway call went to the backend isLocalMode() chose when it was made.
Called(g, op, id, ok) ==
    [g EXCEPT !.backends = @ \cup {Backend},
              !.call = [op |-> op, id |-> id, backend |-> Backend, ok |-> ok]]

\* Settings: the Local Mode switch.
handleLocalModeToggle(checked) ==
    /\ localMode' = Some(IF checked THEN "true" ELSE "false")
    /\ UNCHANGED <<now, attendance, remoteVars, localAttendance, geo, face, camera, gateway,
                   kioskVars, configVars>>

\* studentsAPI.create.  Local: db.add, a ConstraintError on the unique index
\* by-roll-no.  Remote: the row is sent with id generateId(), which is not a
\* uuid, and the insert is refused.
studentsAPI_create(s) ==
    /\ gateway' =
         IF isLocalMode
         THEN IF s \in gateway.localStudents
              THEN Called(gateway, "studentsAPI.create", s, FALSE)
              ELSE Called([gateway EXCEPT !.localStudents = @ \cup {s}],
                          "studentsAPI.create", s, TRUE)
         ELSE Called(gateway, "studentsAPI.create", s, FALSE)
    /\ UNCHANGED <<now, attendance, remoteVars, localAttendance, geo, face, camera, localMode,
                   kioskVars, configVars>>

\* enrollmentsAPI.create.  Local: db.add under a generated id; the store has no
\* unique index and no foreign key.  Remote: refused as in studentsAPI.create.
enrollmentsAPI_create(s, c, rnd) ==
    /\ LET newEnrollment == [id |-> generateId(now, rnd), student_id |-> s, course_id |-> c]
       IN gateway' =
            IF isLocalMode
            THEN IF AddError(gateway.localEnrollments, newEnrollment)
                 THEN Called(gateway, "enrollmentsAPI.create", s, FALSE)
                 ELSE Called([gateway EXCEPT !.localEnrollments = @ \cup {newEnrollment}],
                             "enrollmentsAPI.create", s, TRUE)
            ELSE Called(gateway, "enrollmentsAPI.create", s, FALSE)
    /\ UNCHANGED <<now, attendance, remoteVars, localAttendance, geo, face, camera, localMode,
                   kioskVars, configVars>>

\* studentsAPI.delete.  Local: db.delete('students', id) and nothing else.
\* Remote: the row is deleted, and with it the enrollments and attendance rows
\* that reference it (on delete cascade).
studentsAPI_delete(s) ==
    /\ gateway' =
         IF isLocalMode
         THEN Called([gateway EXCEPT !.localStudents = @ \ {s}, !.localRows[s] = NewStudentRow],
                     "studentsAPI.delete", s, TRUE)
         ELSE Called([gateway EXCEPT !.students = @ \ {s}, !.rows[s] = NewStudentRow,
                                     !.enrollments = {e \in @ : e.student_id # s}],
                     "studentsAPI.delete", s, TRUE)
    /\ attendance' = IF isLocalMode THEN attendance
                     ELSE {r \in attendance : r.student_id # s}
    /\ UNCHANGED <<now, remoteVars, localAttendance, geo, face, camera, localMode,
                   kioskVars, configVars>>

\* studentsAPI.update(id, {[f]: 1}) up to its first await: isLocalMode() has
\* chosen the branch; the local branch has asked for db.get, the remote one
\* has sent its update request.  concurrent: an earlier call was in flight.
studentsAPI_update(s, f) ==
    /\ Len(gateway.updates) < MaxUpdates
    /\ gateway' =
         [gateway EXCEPT
            !.backends = @ \cup {Backend},
            !.updates = Append(@, [id |-> s, field |-> f, backend |-> Backend,
                                   stage |-> IF isLocalMode THEN "get" ELSE "write",
                                   updated |-> NewStudentRow, ok |-> FALSE,
                                   concurrent |-> \E k \in DOMAIN gateway.updates :
                                                     gateway.updates[k].stage # "done"])]
    /\ UNCHANGED <<now, attendance, remoteVars, localAttendance, geo, face, camera, localMode,
                   kioskVars, configVars>>

\* Local branch: db.get answers.  'Student not found' is thrown for a missing
\* record; else updated = { ...existing, ...updates } and db.put is asked for.
studentsAPI_update_get(k) ==
    /\ k \in DOMAIN gateway.updates
    /\ gateway.updates[k].stage = "get"
    /\ LET u == gateway.updates[k]
       IN gateway' =
            IF u.id \notin gateway.localStudents
            THEN [gateway EXCEPT !.updates[k].stage = "done",
                                 !.call = [op |-> "studentsAPI.update", id |-> u.id,
                                           backend |-> u.backend, ok |-> FALSE]]
            ELSE [gateway EXCEPT !.updates[k].stage = "write",
                                 !.updates[k].updated =
                                     [gateway.localRows[u.id] EXCEPT ![u.field] = 1]]
    /\ UNCHANGED <<now, attendance, remoteVars, localAttendance, geo, face, camera, localMode,
                   kioskVars, configVars>>

\* The write of the call settles.  Local: db.put(updated) stores the whole
\* record under its key, stored before or not.  Remote: the update sets the
\* column of the row with this id; .single() fails when there is no such row.
studentsAPI_update_settles(k) ==
    /\ k \in DOMAIN gateway.updates
    /\ gateway.updates[k].stage = "write"
    /\ LET u == gateway.updates[k]
           ok == u.backend = "local" \/ u.id \in gateway.students
           g == IF u.backend = "local"
                THEN [gateway EXCEPT !.localStudents = @ \cup {u.id},
                                     !.localRows[u.id] = u.updated]
                ELSE IF ok THEN [gateway EXCEPT !.rows[u.id][u.field] = 1]
                ELSE gateway
       IN gateway' = [g EXCEPT !.updates[k].stage = "done", !.updates[k].ok = ok,
                               !.call = [op |-> "studentsAPI.update", id |-> u.id,
                                         backend |-> u.backend, ok |-> ok]]
    /\ UNCHANGED <<now, attendance, remoteVars, localAttendance, geo, face, camera, localMode,
                   kioskVars, configVars>>

\* Students page, handleSave: the insert into public.students (roll_no unique).
Students_handleSave(s) ==
    /\ gateway' = [gateway EXCEPT !.students = @ \cup {s}]
    /\ UNCHANGED <<now, attendance, remoteVars, localAttendance, geo, face, camera, localMode,
                   kioskVars, configVars>>

\* Course page, toggleEnrollment: a delete of the pair, or an insert, which the
\* foreign key refuses for a student that does not exist.
toggleEnrollment(s, c, enrolled) ==
    /\ LET e == [student_id |-> s, course_id |-> c]
       IN gateway' =
            IF enrolled THEN [gateway EXCEPT !.enrollments = @ \ {e}]
            ELSE IF s \in gateway.students THEN [gateway EXCEPT !.enrollments = @ \cup {e}]
            ELSE gateway
    /\ UNCHANGED <<now, attendance, remoteVars, localAttendance, geo, face, camera, localMode,
                   kioskVars, configVars>>

---------------------------------------------------------------------------
\* The stores are empty, attendance_enabled has its column default, no request
\* is in flight, nobody is signed in, no kiosk is open, localStorage is empty.
InitStores ==
    /\ now = 1
    /\ attendance = {}
    /\ attendanceEnabled = [l \in Lectures |-> FALSE]
    /\ req = [k \in Kiosks |-> IdleReq]
    /\ localAttendance = {}
    /\ geo = IdleGeo
    /\ face = IdleFace
    /\ camera = IdleCamera
    /\ localMode = Null
    /\ gateway = IdleGateway
    /\ recognitionThreshold = Null
    /\ lockoutMinutes = Null

InitGps(u) ==
    gps = [pc |-> "login", activeLectures |-> {}, lecture |-> "",
           marked_at |-> 0, userLocation |-> u]

InitNoKiosk ==
    /\ mounted = FALSE
    /\ lectureId = ""
    /\ students = <<>>
    /\ markedStudents = {}
    /\ status = "Initializing..."
    /\ srcObject = Null
    /\ streams = {}
    /\ lockoutMap = [s \in Students |-> 0]
    /\ processingRef = FALSE
    /\ sessions = <<>>
    /\ lastMatch = Null
    /\ requestedAt = [s \in Students |-> 0]
    /\ modelsLoaded = FALSE

InitRemote ==
    /\ InitStores
    /\ \E u \in UserLocations : InitGps(u)
    /\ InitNoKiosk

InitLocal ==
    /\ InitStores
    /\ InitGps(Null)
    /\ InitNoKiosk

NextRemote ==
    \/ \E k \in Kiosks : Serve(k)
    \/ \E k \in Kiosks : ServeUpsert(k)
    \/ handleLogin
    \/ GpsLogout
    \/ \E l \in Lectures : Gps_markAttendance(l)
    \/ Gps_existing
    \/ Gps_insert
    \/ \E l \in Lectures, c \in BOOLEAN : toggleLectureAttendance(l, c)
    \/ \E l \in Lectures, p \in BOOLEAN : toggleAttendance(l, GpsStudent, p)
    \/ Tick

SpecRemote == InitRemote /\ [][NextRemote]_vars

NextLocal ==
    \/ \E l \in Lectures, s \in {"S1", "S2"}, m \in {"face", "manual"}, rnd \in 1..MaxSuffix :
          attendanceAPI_create(l, s, IF m = "face" THEN Some(15) ELSE Null, m, rnd)
    \/ \E l \in Lectures, s \in {"S1", "S2"} : attendanceAPI_delete(l, s)
    \/ Tick

SpecLocal == InitLocal /\ [][NextLocal]_vars

\* The storage gateway next to the Settings switch and the pages that write
\* the remote tables themselves.
NextGateway ==
    \/ \E checked \in BOOLEAN : handleLocalModeToggle(checked)
    \/ \E s \in GatewayStudents : studentsAPI_create(s)
    \/ \E s \in GatewayStudents, c \in GatewayCourses, rnd \in 1..MaxSuffix :
          enrollmentsAPI_create(s, c, rnd)
    \/ \E s \in GatewayStudents : studentsAPI_delete(s)
    \/ \E s \in GatewayStudents : Students_handleSave(s)
    \/ \E s \in GatewayStudents, c \in GatewayCourses, enrolled \in BOOLEAN :
          toggleEnrollment(s, c, enrolled)

SpecGateway == InitLocal /\ [][NextGateway]_vars

\* studentsAPI.update calls, overlapping or not, on either backend.
NextGatewayUpdate ==
    \/ \E checked \in BOOLEAN : handleLocalModeToggle(checked)
    \/ \E s \in GatewayStudents : studentsAPI_create(s)
    \/ \E s \in GatewayStudents : Students_handleSave(s)
    \/ \E s \in GatewayStudents, f \in StudentFields : studentsAPI_update(s, f)
    \/ \E k \in 1..MaxUpdates : studentsAPI_update_get(k)
    \/ \E k \in 1..MaxUpdates : studentsAPI_update_settles(k)

SpecGatewayUpdate == InitLocal /\ [][NextGatewayUpdate]_vars

\* The endpoint alone, next to the operator's manual marking.
NextEndpoint ==
    \/ \E k \in Kiosks : Serve(k)
    \/ \E k \in Kiosks : ServeUpsert(k)
    \/ \E l \in Lectures, p \in BOOLEAN : toggleAttendance(l, GpsStudent, p)
    \/ Tick

SpecEndpoint == InitRemote /\ [][NextEndpoint]_vars

\* The face library and the enrollment form on every frame.
NextEnroll ==
    \/ \E frame \in Frames : Call_getEmbeddingFromVideo(frame)
    \/ \E frame \in Frames : Call_getEmbeddingFromImage(frame)
    \/ \E frame \in Frames : captureFromCamera(frame)
    \/ \E frame \in Frames : handleFileUpload(frame)

SpecEnroll == InitRemote /\ [][NextEnroll]_vars

\* The face self-service page, for a student enrolled with a vector of the
\* detector's length and one enrolled with another.
NextSelfFace ==
    \/ \E l \in Lectures, s \in {"S1", "S3"}, d \in Descriptors, uploaded \in BOOLEAN :
          captureAndMarkAttendance(l, s, Some(d), uploaded)
    \/ \E l \in Lectures, s \in {"S1", "S3"} : captureAndMarkAttendance(l, s, Null, TRUE)

SpecSelfFace == InitRemote /\ [][NextSelfFace]_vars

\* The face self-service page next to the Settings page of the same browser.
NextSelfFaceSettings ==
    \/ NextSelfFace
    \/ \E v \in SliderThresholds : handleThresholdChange(v)

SpecSelfFaceSettings == InitRemote /\ [][NextSelfFaceSettings]_vars

\* The geofence checks on every lecture the form can create.
NextGeofence ==
    \/ \E la \in FormLatitudes, lo \in FormLongitudes, ra \in FormRadii,
          loaded \in BOOLEAN, located \in BOOLEAN, off \in UserOffsets :
          startCamera(la, lo, ra, loaded, located, off)
    \/ \E la \in FormLatitudes, lo \in FormLongitudes, ra \in FormRadii,
          located \in BOOLEAN, off \in UserOffsets :
          Gps_geofence(la, lo, ra, located, off)

SpecGeofence == InitRemote /\ [][NextGeofence]_vars

\* The camera of the face self-service page.
NextSelfCamera ==
    \/ \E la \in FormLatitudes, lo \in FormLongitudes, ra \in FormRadii,
          loaded \in BOOLEAN, located \in BOOLEAN, off \in UserOffsets :
          startCamera(la, lo, ra, loaded, located, off)
    \/ \E ok \in BOOLEAN : startCamera_getUserMediaReturns(ok)
    \/ StudentAttendance_unmount

SpecSelfCamera == InitRemote /\ [][NextSelfCamera]_vars

\* The Kiosk after its first render and the first run of the effect:
\* initialize() has set the status and awaits loadFaceModels().
InitKiosk ==
    /\ InitStores
    /\ InitGps(Null)
    /\ mounted = TRUE
    /\ lectureId \in KioskLectureIds
    /\ students = <<>>
    /\ markedStudents = {}
    /\ status = "Loading face models..."
    /\ srcObject = Null
    /\ streams = {}
    /\ lockoutMap = [s \in Students |-> 0]
    /\ processingRef = FALSE
    /\ sessions = <<NewSession(lectureId, <<>>, {}, FALSE)>>
    /\ lastMatch = Null
    /\ requestedAt = [s \in Students |-> 0]
    /\ modelsLoaded = FALSE

NextKiosk ==
    \/ \E i \in 1..MaxSessions, ok \in BOOLEAN : loadFaceModelsReturns(i, ok)
    \/ \E i \in 1..MaxSessions, ok \in BOOLEAN : getUserMediaReturns(i, ok)
    \/ \E i \in 1..MaxSessions, o \in FetchOutcomes : fetchEnrolledStudentsReturns(i, o)
    \/ \E i \in 1..MaxSessions : loop(i)
    \/ \E i \in 1..MaxSessions, r \in InferOutcomes : getEmbeddingFromVideoReturns(i, r)
    \/ \E i \in 1..MaxSessions, t \in ReqTokens, ok \in BOOLEAN :
          markAttendanceReturns(i, t, ok)
    \/ \E l \in KioskLectureIds : Len(sessions) < MaxSessions /\ ChangeLecture(l)
    \/ \E d \in BOOLEAN : Unmount(d)
    \/ \E v \in SliderThresholds : handleThresholdChange(v)
    \/ \E v \in SliderLockouts : handleLockoutChange(v)
    \/ Tick

SpecKiosk == InitKiosk /\ [][NextKiosk]_vars

\* The Kiosk with the clock and the lockout setting left alone: neither enters
\* the scheduling of the loop, initialize() or the scan of matchFace.  The
\* route may start at an unknown lecture and changes between the known ones;
\* the kiosk holds the endpoint's token; an unmount detaches the video element
\* before the cleanup (the order decides only whether the tracks are stopped).
NextKioskLoop ==
    \/ \E i \in 1..MaxSessions, ok \in BOOLEAN : loadFaceModelsReturns(i, ok)
    \/ \E i \in 1..MaxSessions, ok \in BOOLEAN : getUserMediaReturns(i, ok)
    \/ \E i \in 1..MaxSessions, o \in FetchOutcomes : fetchEnrolledStudentsReturns(i, o)
    \/ \E i \in 1..MaxSessions : loop(i)
    \/ \E i \in 1..MaxSessions, r \in InferOutcomes : getEmbeddingFromVideoReturns(i, r)
    \/ \E i \in 1..MaxSessions, ok \in BOOLEAN :
          markAttendanceReturns(i, KIOSK_TOKEN, ok)
    \/ \E l \in Lectures : Len(sessions) < MaxSessions /\ ChangeLecture(l)
    \/ Unmount(TRUE)
    \/ \E v \in SliderThresholds : handleThresholdChange(v)

SpecKioskLoop == InitKiosk /\ [][NextKioskLoop]_vars

\* The Kiosk with the clock running and the lockout setting changing, while it
\* stays mounted, the threshold setting is left alone and the detector sees
\* nobody or one face (at the same distance of S1 and S2).
NextKioskClock ==
    \/ \E i \in 1..MaxSessions, ok \in BOOLEAN : loadFaceModelsReturns(i, ok)
    \/ \E i \in 1..MaxSessions, ok \in BOOLEAN : getUserMediaReturns(i, ok)
    \/ \E i \in 1..MaxSessions, o \in FetchOutcomes : fetchEnrolledStudentsReturns(i, o)
    \/ \E i \in 1..MaxSessions : loop(i)
    \/ \E i \in 1..MaxSessions, r \in {Null, Some(<<3, 4>>)} :
          getEmbeddingFromVideoReturns(i, r)
    \/ \E i \in 1..MaxSessions, t \in ReqTokens, ok \in BOOLEAN :
          markAttendanceReturns(i, t, ok)
    \/ \E l \in KioskLectureIds : Len(sessions) < MaxSessions /\ ChangeLecture(l)
    \/ \E v \in SliderLockouts : handleLockoutChange(v)
    \/ Tick

SpecKioskClock == InitKiosk /\ [][NextKioskClock]_vars

\* The Kiosk with its timers firing and its requests settling: every pending
\* setTimeout runs its callback and every fetch resolves or rejects.  One face
\* or nobody is in front of the camera.
NextKioskLive ==
    \/ \E i \in 1..MaxSessions, ok \in BOOLEAN : loadFaceModelsReturns(i, ok)
    \/ \E i \in 1..MaxSessions, ok \in BOOLEAN : getUserMediaReturns(i, ok)
    \/ \E i \in 1..MaxSessions, o \in FetchOutcomes : fetchEnrolledStudentsReturns(i, o)
    \/ \E i \in 1..MaxSessions : loop(i)
    \/ \E i \in 1..MaxSessions, r \in {Null, Some(<<3, 4>>)} :
          getEmbeddingFromVideoReturns(i, r)
    \/ \E i \in 1..MaxSessions, ok \in BOOLEAN :
          markAttendanceReturns(i, KIOSK_TOKEN, ok)
    \/ \E l \in Lectures : Len(sessions) < MaxSessions /\ ChangeLecture(l)
    \/ Unmount(TRUE)

SpecKioskLive ==
    /\ InitKiosk
    /\ [][NextKioskLive]_vars
    /\ \A i \in 1..MaxSessions :
          /\ WF_vars(loop(i))
          /\ WF_vars(\E ok \in BOOLEAN : markAttendanceReturns(i, KIOSK_TOKEN, ok))

\* The same Kiosk when only its timers are sure to fire: an awaited call
\* (inference, fetch) may stay pending for ever.
SpecKioskTimers ==
    /\ InitKiosk
    /\ [][NextKioskLive]_vars
    /\ \A i \in 1..MaxSessions : WF_vars(loop(i))

\* The Kiosk through repeated route changes: everything succeeds, one face
\* stays in front of the camera, and the clock stands still.
NextKioskRoutes ==
    \/ \E i \in 1..MaxEffectRuns : loadFaceModelsReturns(i, TRUE)
    \/ \E i \in 1..MaxEffectRuns : getUserMediaReturns(i, TRUE)
    \/ \E i \in 1..MaxEffectRuns, o \in {"ok", "error"} : fetchEnrolledStudentsReturns(i, o)
    \/ \E i \in 1..MaxEffectRuns : loop(i)
    \/ \E i \in 1..MaxEffectRuns : getEmbeddingFromVideoReturns(i, Some(<<3, 4>>))
    \/ \E i \in 1..MaxEffectRuns : markAttendanceReturns(i, KIOSK_TOKEN, TRUE)
    \/ \E l \in Lectures : ChangeLecture(l)

SpecKioskRoutes == InitKiosk /\ [][NextKioskRoutes]_vars

---------------------------------------------------------------------------
\* C1: in the remote attendance table no two rows share (lecture_id,
\* student_id), whatever the interleaving of endpoint upserts, self-service
\* check-then-insert writes and manual inserts and deletes.
C1_AtMostOnePerPair ==
    \A r1 \in attendance : \A r2 \in attendance :
        SamePair(r1, r2.lecture_id, r2.student_id) => r1 = r2

\* C1 witness: the self-service page found no row and issued its insert, and
\* before the insert reaches the table another writer recorded the same pair.
C1_Witness ==
    /\ gps.pc = "insert"
    /\ \E r \in attendance : SamePair(r, gps.lecture, GpsStudent) /\ r.method # "gps"

\* C2: the local attendance store holds at most one record per (lecture_id,
\* student_id) after any sequence of attendanceAPI.create calls.
C2_LocalAtMostOnePerPair ==
    \A r1 \in localAttendance : \A r2 \in localAttendance :
        SamePair(r1, r2.lecture_id, r2.student_id) => r1 = r2

\* C3: a record request for a pair that already has a row leaves that row's
\* marked_at, confidence and method as they were.
C3_ReRecordKeepsRow ==
    [][\A r \in attendance : \A q \in attendance' :
          SamePair(q, r.lecture_id, r.student_id) =>
              /\ q.marked_at = r.marked_at
              /\ q.confidence = r.confidence
              /\ q.method = r.method]_vars

\* C4: no face or gps attendance row is created or changed for a lecture while
\* that lecture's attendance_enabled is false.
C4_NoWriteWhileDisabled ==
    [][\A q \in attendance' :
          (q \notin attendance /\ q.method \in {"face", "gps"}) =>
              attendanceEnabled[q.lecture_id]]_vars


---------------------------------------------------------------------------
\* Claims about the Kiosk.

\* C5: single-flight.  In every reachable state of a Kiosk, also after
\* initialize() ran again for another lectureId, at most one cycle (a pending
\* getEmbeddingFromVideo or a pending write of matchFace) is in progress, and
\* processingRef is set while one is; a tick that fires meanwhile starts none.
C5_SingleFlight ==
    /\ Cardinality({i \in DOMAIN sessions : sessions[i].pc \in {"infer", "fetch"}}) <= 1
    /\ (\E i \in DOMAIN sessions : sessions[i].pc \in {"infer", "fetch"}) => processingRef

\* A tick of the second loop was dropped while the first loop's inference is
\* pending.
C5_Witness ==
    /\ mounted
    /\ Len(sessions) = 2
    /\ sessions[1].pc = "infer"
    /\ sessions[2].pc = "timer196"

\* C6: cancellation.  A session that was stopped (the component unmounted, or
\* lectureId changed and a later session exists) starts no getEmbeddingFromVideo
\* call and no attendance write, and a write of its that was pending at the
\* stop updates neither the lockout map nor the marked set when it settles.
C6_StoppedSessionIsInert ==
    [][\A i \in DOMAIN sessions :
         (~mounted \/ i < Len(sessions)) =>
            /\ sessions'[i].pc = "infer" => sessions[i].pc = "infer"
            /\ sessions'[i].pc = "fetch" => sessions[i].pc = "fetch"
            /\ (sessions[i].pc = "fetch" /\ sessions'[i].pc # "fetch") =>
                  (lockoutMap' = lockoutMap /\ markedStudents' = markedStudents)]_vars

\* C7: camera ownership.  Every open camera stream belongs to the session
\* that is active (the latest one of a mounted Kiosk): a stopped session holds
\* no open stream, and so no two streams are ever open.
C7_StreamsReleased ==
    streams \subseteq (IF mounted THEN {Len(sessions)} ELSE {})

C9_ThresholdSafety ==
    /\ lastMatch # Null =>
          LET m == lastMatch[1]
              s == sessions[m.session]
              e(k) == StudentRow(s.students[k]).embedding
          IN /\ m.best # 0 =>
                   euclideanDistance(m.descriptor, e(m.best)) <= m.threshold
             /\ (\A k \in 1..Len(s.students) :
                     /\ ~DimensionMismatch(m.descriptor, e(k))
                     /\ euclideanDistance(m.descriptor, e(k)) > m.threshold)
                   => (m.best = 0 /\ s.pc # "fetch")
    /\ \A i \in DOMAIN sessions :
          sessions[i].pc = "fetch" =>
             /\ lastMatch # Null
             /\ lastMatch[1].session = i
             /\ lastMatch[1].best # 0
             /\ sessions[i].student = sessions[i].students[lastMatch[1].best]

\* matchFace ran on a cohort all of whose members are farther than the
\* threshold, and selected nobody.
C9_Witness ==
    /\ lastMatch # Null
    /\ sessions[lastMatch[1].session].students # <<>>
    /\ ~lastMatch[1].threw
    /\ lastMatch[1].best = 0
    /\ sessions[lastMatch[1].session].pc = "timer216"

\* C10: nearest neighbour.  On a cohort whose embeddings all have the
\* descriptor's length, with at least one member within the threshold,
\* matchFace selects a member of minimum distance over the whole cohort, and
\* of the members at that distance the one earliest in the cohort's order.
C10_NearestFirst ==
    lastMatch # Null =>
        LET m == lastMatch[1]
            s == sessions[m.session]
            e(k) == StudentRow(s.students[k]).embedding
            d(k) == euclideanDistance(m.descriptor, e(k))
            all == 1..Len(s.students)
        IN (/\ \A k \in all : ~DimensionMismatch(m.descriptor, e(k))
            /\ \E k \in all : d(k) <= m.threshold)
           => /\ ~m.threw
              /\ m.best \in all
              /\ \A k \in all : d(m.best) <= d(k)
              /\ \A k \in all : d(k) = d(m.best) => m.best <= k

\* Two members at the same minimum distance; the first one was selected and
\* its write is pending.
C10_Witness ==
    /\ lastMatch # Null
    /\ lastMatch[1].best = 1
    /\ sessions[lastMatch[1].session].pc = "fetch"
    /\ Len(sessions[lastMatch[1].session].students) >= 2
    /\ euclideanDistance(lastMatch[1].descriptor,
                         StudentRow(sessions[lastMatch[1].session].students[1]).embedding)
         = euclideanDistance(lastMatch[1].descriptor,
                             StudentRow(sessions[lastMatch[1].session].students[2]).embedding)


---------------------------------------------------------------------------
\* Claims about the geofence.

\* C12: the radius is inclusive.  For a lecture with a location and a student
\* with a known location, the self-service flow goes on exactly when the
\* distance is at most the radius.
C12_RadiusInclusive ==
    (/\ geo.pc = "done"
     /\ geo.modelsLoaded
     /\ geo.lecture.latitude # Null /\ geo.lecture.longitude # Null
     /\ geo.userLocation # Null)
    => (geo.proceeds <=>
          CalculateDistance(geo.userLocation[1].latitude, geo.userLocation[1].longitude,
                            geo.lecture.latitude[1], geo.lecture.longitude[1])
             <= geo.lecture.radius[1])

\* C13: the geofence fails closed.  For a lecture with a location (whatever
\* the stored values) and a student whose location is unavailable, the flow
\* does not go on.
C13_FailsClosed ==
    (/\ geo.pc = "done"
     /\ geo.lecture.latitude # Null /\ geo.lecture.longitude # Null
     /\ geo.userLocation = Null)
    => ~geo.proceeds

\* C14: the check is skipped only without a location.  A lecture with no
\* location passes whatever the student's location; a lecture with a location
\* lets the flow go on only for a known location within the radius.
C14_SkippedOnlyWithoutLocation ==
    geo.pc = "done" =>
        IF geo.lecture.latitude = Null \/ geo.lecture.longitude = Null
        THEN geo.modelsLoaded => geo.proceeds
        ELSE geo.proceeds =>
               /\ geo.userLocation # Null
               /\ CalculateDistance(geo.userLocation[1].latitude,
                                    geo.userLocation[1].longitude,
                                    geo.lecture.latitude[1], geo.lecture.longitude[1])
                    <= geo.lecture.radius[1]


---------------------------------------------------------------------------
\* Claims about the mark-attendance endpoint.

\* C15: the time window.  A request with the valid token for an existing
\* lecture, received when now < starts_at or now > ends_at, is answered 400
\* and goes to no upsert, so that it creates or changes no attendance row; a
\* request received with starts_at <= now <= ends_at gets no 'Lecture is not
\* active' response.
C15_TimeWindow ==
    [][\A k \in Kiosks :
         (/\ req[k].pc = "idle"
          /\ req'[k] # req[k]
          /\ req'[k].token = KIOSK_TOKEN
          /\ req'[k].lecture_id \in Lectures)
         => LET row == LectureRow(req'[k].lecture_id)
            IN IF now < row.starts_at \/ now > row.ends_at
               THEN /\ req'[k].pc = "idle"
                    /\ req'[k].status = 400
                    /\ attendance' = attendance
               ELSE req'[k].window = Null]_vars

\* A request for a lecture whose window is over has been answered
\* 'Lecture is not active', next to a row of that lecture.
C15_Witness ==
    \E k \in Kiosks :
        /\ req[k].token = KIOSK_TOKEN
        /\ req[k].window # Null
        /\ req[k].status = 400
        /\ now > req[k].window[1][2]
        /\ \E r \in attendance : r.lecture_id = req[k].lecture_id

\* C16: authentication.  A request whose x-kiosk-token header is missing or
\* differs from KIOSK_TOKEN is answered 401 whatever its body, goes to no
\* upsert and changes no attendance row; every upsert of the endpoint is that
\* of a request that carried the token.
C16_TokenRequired ==
    [][\A k \in Kiosks :
         /\ (/\ req[k].pc = "idle"
              /\ req'[k] # req[k]
              /\ req'[k].token # KIOSK_TOKEN)
            => /\ req'[k].pc = "idle"
               /\ req'[k].status = 401
               /\ attendance' = attendance
         /\ req[k].pc = "upsert" => req[k].token = KIOSK_TOKEN]_vars

\* A request without the header, for a lecture that is active, was answered 401.
C16_Witness ==
    \E k \in Kiosks :
        /\ req[k].token = ""
        /\ req[k].status = 401
        /\ req[k].lecture_id \in ActiveAt(now)


---------------------------------------------------------------------------
\* Claims about face detection and enrollment.

\* C17: live extraction never fails.  getEmbeddingFromVideo never throws; a
\* result it returns is the most confident face of the frame with a box of at
\* least 150 x 150; it returns null when the detector throws, when no face is
\* detected and when the most confident face is smaller.
C17_LiveExtractionNeverFails ==
    face.op = "getEmbeddingFromVideo" =>
        /\ ~face.threw
        /\ face.value # Null =>
              /\ ~face.frame.throws
              /\ face.value \in detectSingleFace(face.frame)
              /\ face.value[1].width >= 150
              /\ face.value[1].height >= 150
        /\ (\/ face.frame.throws
            \/ \A d \in detectSingleFace(face.frame) :
                  d = Null \/ d[1].width < 150 \/ d[1].height < 150)
           => face.value = Null

\* null for a frame whose most confident face is too small by one side only,
\* next to a face that is large enough.
C17_Witness ==
    /\ face.op = "getEmbeddingFromVideo"
    /\ face.value = Null
    /\ \E d \in detectSingleFace(face.frame) :
          d # Null /\ (d[1].width >= 150 \/ d[1].height >= 150)
    /\ \E i \in DOMAIN face.frame.faces :
          LET f == face.frame.faces[i]
          IN f.score > ScoreThreshold /\ f.width >= 150 /\ f.height >= 150

\* C18: enrollment requires one unambiguous face.  On the file upload and on
\* the webcam capture, the form accepts an embedding only when exactly one
\* face is detected and its box is at least 150 x 150; no face, several faces
\* and a small face each fail with their error.
C18_ExactlyOneFace ==
    face.op \in {"captureFromCamera", "handleFileUpload"} =>
        LET ds == detectAllFaces(face.frame)
        IN /\ face.accepted =>
                /\ ~face.frame.throws
                /\ Len(ds) = 1
                /\ ds[1].width >= 150 /\ ds[1].height >= 150
                /\ face.descriptor = Some(ds[1])
           /\ (~face.frame.throws /\ Len(ds) = 0) =>
                face.error \in {"No face detected in the image",
                                "No face detected or face too small. Move closer to the camera."}
           /\ Len(ds) > 1 =>
                face.error = "Multiple faces detected. Please use an image with exactly one face."
           /\ (Len(ds) = 1 /\ (ds[1].width < 150 \/ ds[1].height < 150)) =>
                face.error \in {"Face detected is too small. Please use a closer image.",
                                "No face detected or face too small. Move closer to the camera."}


---------------------------------------------------------------------------
\* Claims about embeddings of different lengths.

---------------------------------------------------------------------------
\* Claims about the kiosk after its write request.

\* C20: the lockout is set only on a confirmed write.  When the request of a
\* session settles and the kiosk changes the student's lockout entry or the
\* marked set, the endpoint has answered 200: the attendance table holds the
\* row of this lecture and student that the request wrote.
C20_LockoutOnlyOnConfirmedWrite ==
    [][\A i \in DOMAIN sessions :
         (sessions[i].pc = "fetch" /\ sessions'[i].pc # "fetch") =>
            LET s == sessions[i].student
            IN (lockoutMap'[s] # lockoutMap[s] \/ markedStudents' # markedStudents)
               => \E r \in attendance' :
                     /\ SamePair(r, sessions[i].lectureId, s)
                     /\ r.marked_at = Some(now)
                     /\ r.method = "face"]_vars


---------------------------------------------------------------------------
\* Claims about the kiosk across lockout windows and settings.

\* C21: after the lockout window has expired, a match of a student the kiosk
\* has already recorded for the session's lecture is stopped by the
\* already-marked test: matchFace sends no request for it.
C21_RecordedStudentIsNotSentAgain ==
    [][\A i \in DOMAIN sessions :
         (sessions[i].pc = "infer" /\ sessions'[i].pc = "fetch") =>
            LET s == sessions'[i].student
            IN ~(/\ s \in markedStudents
                 /\ \E r \in attendance : SamePair(r, sessions[i].lectureId, s)
                 /\ ~LockedOut(lockoutMap[s], now, LockoutMinutesOf(lockoutMinutes)))]_vars


\* C22: the order of the preconditions.  A match is stopped by the local
\* lockout only when the earlier preconditions hold: the session's lecture has
\* attendance enabled and its window contains now.  In a lecture with
\* attendance disabled, or outside the window, a locked-out student's match
\* does not end on the lockout path.
C22_LockoutIsCheckedLast ==
    [][\A i \in DOMAIN sessions :
         (/\ sessions[i].pc = "infer"
          /\ sessions'[i].pc = "timer216"
          /\ lastMatch' # Null
          /\ lastMatch'[1].session = i
          /\ lastMatch'[1].best # 0
          /\ sessions[i].lectureId \in Lectures
          /\ LockedOut(lockoutMap[sessions[i].students[lastMatch'[1].best]], now,
                       LockoutMinutesOf(lockoutMinutes)))
         => /\ attendanceEnabled[sessions[i].lectureId]
            /\ sessions[i].lectureId \in ActiveAt(now)]_vars


\* C23: errors are never fatal to the loop.  Every cycle that ends (no face, no
\* match, a match stopped or written, an exception of the scan, a rejected
\* fetch) leaves the processing flag false and a timer of the loop pending;
\* and while the component is mounted, whenever the flag is false and a timer
\* is pending a cycle starts later.
C23_ErrorsAreNotFatal ==
    /\ [][\A i \in DOMAIN sessions :
            (sessions[i].pc \in {"infer", "fetch"} /\ sessions'[i].pc \notin {"infer", "fetch"})
            => (sessions'[i].pc = "timer216" /\ ~processingRef')]_vars
    /\ ((mounted /\ ~processingRef
           /\ \E i \in DOMAIN sessions : sessions[i].pc \in {"timer196", "timer216"})
        ~> (processingRef \/ ~mounted))

\* A cycle whose scan threw on a stored vector of another length has ended:
\* the flag is false and its timer is pending.
C23_Witness ==
    /\ mounted
    /\ ~processingRef
    /\ lastMatch # Null
    /\ lastMatch[1].threw
    /\ sessions[lastMatch[1].session].pc = "timer216"


\* C24: no loop hang.  While the component is mounted, a cycle in progress
\* ends, whether or not its inference call or its write request returns: the
\* processing flag becomes false again, so that a later tick can start a cycle.
C24_NoLoopHang ==
    (mounted /\ processingRef) ~> (~processingRef \/ ~mounted)


C27_ModelsLoadOnce ==
    [][\A i \in DOMAIN sessions :
         (sessions[i].pc = "loadModels" /\ sessions'[i].pc = "getUserMedia") => ~modelsLoaded]_vars


\* C28: within one run all storage gateway calls go to the same backend: the
\* calls made so far never went to both the local and the remote store.
C28_BackendSelectionIsStatic == Cardinality(gateway.backends) <= 1

\* C29: after studentsAPI.delete(id) has succeeded, no enrollment of the
\* backend it ran on references that student id.
C29_DeleteCascades ==
    (gateway.call.op = "studentsAPI.delete" /\ gateway.call.ok)
    => LET id == gateway.call.id
       IN IF gateway.call.backend = "local"
          THEN \A e \in gateway.localEnrollments : e.student_id # id
          ELSE \A e \in gateway.enrollments : e.student_id # id


\* C30: the running loop matches against the loaded cohort: when the only run
\* of initialize() has loaded a non-empty list of students, every matching
\* cycle of its loop scans exactly that list.
C30_LoopScansLoadedCohort ==
    [][(/\ Len(sessions) = 1
        /\ sessions[1].pc = "infer"
        /\ lastMatch' # Null /\ lastMatch' # lastMatch
        /\ students # <<>>)
       => sessions[1].students = students]_vars


\* C31: lockout state is per session: a loop that matches a student it holds
\* as not recorded goes on to the write request unless a loop of the same
\* lecture has set a lockout entry for that student; an entry set by a loop of
\* another lecture does not stop it.
C31_LockoutIsPerSession ==
    [][\A i \in DOMAIN sessions :
         (/\ sessions[i].pc = "infer"
          /\ lastMatch' # Null /\ lastMatch'[1].session = i
          /\ ~lastMatch'[1].threw /\ lastMatch'[1].best # 0
          /\ LET s == sessions[i].students[lastMatch'[1].best]
             IN /\ s \notin sessions[i].markedStudents
                /\ \A j \in DOMAIN sessions :
                      sessions[j].lectureId = sessions[i].lectureId => s \notin sessions[j].locked)
         => sessions'[i].pc = "fetch"]_vars


\* C32: the camera handle of the face self-service page is always released:
\* every stream getUserMedia returned and whose tracks still run is the one
\* held in streamRef by the mounted page.
C32_EveryStreamIsOwned ==
    \A stream \in camera.running : camera.mounted /\ camera.streamRef = Some(stream)


\* C33: local update has no lost update: when two overlapping
\* studentsAPI.update calls on the same stored id, in local mode, on different
\* fields, have both succeeded, the stored record carries both changes.
C33_NoLostUpdate ==
    \A j, k \in DOMAIN gateway.updates :
        LET a == gateway.updates[j]
            b == gateway.updates[k]
        IN (/\ j < k /\ b.concurrent
            /\ a.stage = "done" /\ b.stage = "done" /\ a.ok /\ b.ok
            /\ a.backend = "local" /\ b.backend = "local"
            /\ a.id = b.id /\ a.field # b.field)
           => /\ gateway.localRows[a.id][a.field] = 1
              /\ gateway.localRows[a.id][b.field] = 1

====
